---- MODULE Spec2Model ----
(***************************************************************************)
(* Model of api/index.py: a Flask service that geolocates the caller by IP *)
(* and looks the location up in a polygon dataset (SOIL_FLOOD_HAZARD).     *)
(*                                                                         *)
(* The source file holds two variants of the service: the serverless one   *)
(* (lines 1-126) and the standalone one ("map test.py", lines 129-256).    *)
(* They differ in the start-up download (guarded by try/except or not) and *)
(* in how /check_flood_hazard obtains the caller's IP.                     *)
(*                                                                         *)
(* Strings that the code splits and strips are sequences of Unicode code   *)
(* points; an optional string (a header that may be absent) is a record    *)
(* [some, s].  Python's None and pandas' missing value are the strings     *)
(* "None" and "NaN".  Coordinates are integers on a small grid.            *)
(***************************************************************************)
EXTENDS Integers, Sequences, FiniteSets, TLC

\* ------------------------------------------------------------------ bounds
\* Requests (hazard checks and map fetches) admitted in one run.
MaxRequests == 3
\* Polygons in a dataset drawn for the resolver.
MaxPolys == 2
\* Query coordinates range over 0..GridMax.
GridMax == 4
\* Characters in an X-Forwarded-For header / a connection address.
MaxHdrLen == 3

\* ------------------------------------------------------------- vocabulary
None == "None"
NaN == "NaN"
Clients == {"A", "B"}
Variants == {"serverless", "standalone"}
WGS84 == "EPSG:4326"
\* A projected reference system, standing for any dataset CRS other than
\* WGS84.  Its projection is modelled by its false easting/northing alone.
Projected == "EPSG:32651"
ProjectedOffset == [easting |-> 1, northing |-> 2]
MapPng == "map.png"

Nothing == [some |-> FALSE, s |-> <<>>]
Some(str) == [some |-> TRUE, s |-> str]

\* Python truthiness of an optional string: "if ip_address:".
Truthy(o) == o.some /\ Len(o.s) > 0

\* ------------------------------------------------------- string functions
\* The code point of ',', the separator of ip_address.split(',').
Comma == 44

\* The code points str.strip() removes, those str.isspace() accepts:
\* TAB LF VT FF CR, FS GS RS US, SPACE, NEL, NBSP, U+1680, U+2000..U+200A,
\* U+2028, U+2029, U+202F, U+205F, U+3000.
Whitespace ==
  {9, 10, 11, 12, 13, 28, 29, 30, 31, 32, 133, 160, 5760,
   8232, 8233, 8239, 8287, 12288} \cup (8192..8202)

\* str.split(','): the parts between the commas, in order.
RECURSIVE split(_)
split(str) ==
  IF \A i \in 1..Len(str) : str[i] # Comma
  THEN <<str>>
  ELSE LET k == CHOOSE i \in 1..Len(str) :
                  str[i] = Comma /\ \A j \in 1..(i - 1) : str[j] # Comma
       IN <<SubSeq(str, 1, k - 1)>> \o split(SubSeq(str, k + 1, Len(str)))

RECURSIVE lstrip(_)
lstrip(str) ==
  IF Len(str) > 0 /\ Head(str) \in Whitespace THEN lstrip(Tail(str)) ELSE str

RECURSIVE rstrip(_)
rstrip(str) ==
  IF Len(str) > 0 /\ str[Len(str)] \in Whitespace
  THEN rstrip(SubSeq(str, 1, Len(str) - 1))
  ELSE str

\* str.strip()
strip(str) == rstrip(lstrip(str))

\* The serverless variant's IP extraction: X-Forwarded-For, defaulting to
\* the connection address; then the first comma-separated entry, stripped.
client_ip_last_entry(hdr, addr) ==
  LET ip == IF hdr.some THEN hdr ELSE addr
  IN IF Truthy(ip)
     THEN Some(strip(split(ip.s)[Len(split(ip.s))]))
     ELSE ip

client_ip_serverless(hdr, addr) ==
  LET ip == IF hdr.some THEN hdr ELSE addr
  IN IF Truthy(ip) THEN Some(strip(split(ip.s)[1])) ELSE ip

\* The standalone variant: request.remote_addr, whatever the headers say.
client_ip_standalone(hdr, addr) == addr

client_ip(var, hdr, addr) ==
  IF var = "serverless"
  THEN client_ip_serverless(hdr, addr)
  ELSE client_ip_standalone(hdr, addr)

\* The geolocation endpoint: the per-IP one for a truthy ip_address, the
\* caller's-own-IP one otherwise.
geo_url(ip) ==
  IF Truthy(ip) THEN [endpoint |-> "geo/ip", ip |-> ip.s]
                ELSE [endpoint |-> "geo", ip |-> <<>>]

\* ---------------------------------------------------------------- dataset
Labels == {"HIGH", "LOW", NaN}

\* The polygons of the datasets: axis-parallel boxes in the dataset's own
\* coordinates, overlapping and not symmetric in x and y.
Boxes ==
  { [xmin |-> 0, ymin |-> 0, xmax |-> 4, ymax |-> 2],
    [xmin |-> 1, ymin |-> 0, xmax |-> 3, ymax |-> 4],
    [xmin |-> 2, ymin |-> 2, xmax |-> 5, ymax |-> 5] }

Polygons == { [box |-> b, label |-> l] : b \in Boxes, l \in Labels }

SeqsUpTo(S, n) == UNION { [1..k -> S] : k \in 0..n }

Datasets ==
  { [crs |-> c, rows |-> r] :
      c \in {WGS84, Projected}, r \in SeqsUpTo(Polygons, MaxPolys) }

\* Point(longitude, latitude): x is the longitude, y the latitude.
make_point_swapped(longitude, latitude) == [x |-> latitude, y |-> longitude]

make_point(longitude, latitude) == [x |-> longitude, y |-> latitude]

\* GeoDataFrame.to_crs from WGS84.
to_crs(p, crs) ==
  IF crs = WGS84 THEN p
  ELSE [x |-> p.x + ProjectedOffset.easting,
        y |-> p.y + ProjectedOffset.northing]

\* The point tagged EPSG:4326, reprojected when the dataset's CRS differs.
align_crs(p, crs) == IF WGS84 # crs THEN to_crs(p, crs) ELSE p

\* predicate='within': the point is in the polygon's interior.
within(p, box) ==
  /\ box.xmin < p.x /\ p.x < box.xmax
  /\ box.ymin < p.y /\ p.y < box.ymax

RECURSIVE matches(_, _)
matches(p, rows) ==
  IF rows = <<>> THEN <<>>
  ELSE (IF within(p, Head(rows).box) THEN <<Head(rows).label>> ELSE <<>>)
         \o matches(p, Tail(rows))

\* gpd.sjoin(point, gdf[['geometry','SOIL_FLOOD_HAZARD']], how='left',
\* predicate='within'): the SOIL_FLOOD_HAZARD column of the result, one row
\* per containing polygon, or a single row with a missing value.
sjoin(p, rows) ==
  LET m == matches(p, rows) IN IF m = <<>> THEN <<NaN>> ELSE m

\* isna().all()
all_na(col) == \A i \in 1..Len(col) : col[i] = NaN

pick_hazard(col) ==
  IF Len(col) > 0 /\ ~all_na(col) THEN col[1] ELSE None

\* The spatial part of get_flood_hazard_from_ip.
resolve_hazard(longitude, latitude, gdf) ==
  pick_hazard(sjoin(align_crs(make_point(longitude, latitude), gdf.crs),
                    gdf.rows))

\* ------------------------------------------------------------ environment
\* What the disk holds at DATA_FILE.
FileStates == {"absent", "corrupt", "valid"}

\* requests.get(DATA_URL, stream=True) and the chunked write, as one outcome:
\*   ok            the dataset arrives and is written whole
\*   not_a_dataset the server answers 200 with something else (an HTML page)
\*   http_error    the request fails or raise_for_status raises: no file
\*   broken_stream the stream breaks after open(DATA_FILE, 'wb'): a partial file
DownloadOutcomes == {"ok", "not_a_dataset", "http_error", "broken_stream"}

file_after_download(o) ==
  CASE o = "ok" -> "valid"
    [] o = "not_a_dataset" -> "corrupt"
    [] o = "http_error" -> "absent"
    [] o = "broken_stream" -> "corrupt"

download_raises(o) == o \in {"http_error", "broken_stream"}

\* os.path.exists(DATA_FILE) decides whether download_map_data downloads.
needs_download_always(f) == TRUE

needs_download(f) == f = "absent"

\* The geolocation call: requests.get / raise_for_status / json(), then the
\* two .get() parses of the answer.
GeoOutcomes == {"network_fail", "bad_status", "bad_json", "missing_fields", "ok"}

\* The outcomes the try/except around the call turns into (None, None).
geo_caught(o) == o \in {"network_fail", "bad_status", "bad_json"}

\* Locations the geolocation service answers with, as (longitude, latitude).
SamplePoints == { <<1, 1>>, <<4, 4>> }

SampleDatasets ==
  { [crs |-> WGS84,
     rows |-> << [box |-> [xmin |-> 0, ymin |-> 0, xmax |-> 4, ymax |-> 2],
                  label |-> "HIGH"] >>],
    [crs |-> Projected,
     rows |-> << [box |-> [xmin |-> 1, ymin |-> 0, xmax |-> 3, ymax |-> 4],
                  label |-> "LOW"],
                 [box |-> [xmin |-> 2, ymin |-> 2, xmax |-> 5, ymax |-> 5],
                  label |-> NaN] >>] }

\* X-Forwarded-For "1,2" or no such header; connection address "9".
SampleHeaders == { Nothing, Some(<<49, Comma, 50>>) }
SampleAddrs == { Some(<<57>>) }

\* ------------------------------------------------------------------ state
VARIABLES
  variant,          \* which of the two variants of the service runs
  proc,             \* "starting", "running" or "crashed"
  file,             \* what the disk holds at DATA_FILE
  startFile,        \* ... when the process started
  dataset,          \* the contents of a valid DATA_FILE
  mapFiles,         \* the image paths that exist on disk
  current_map_path, \* the module-level global
  chk,              \* per client: the /check_flood_hazard request in flight
  chkResp,          \* per client: the last /check_flood_hazard response
  mapResp,          \* per client: the last /map response
  mapq,             \* per client: where its /map request is in serve_map
  lastWriter,       \* the client whose check last assigned current_map_path
  anySuccess,       \* some check has answered with a resolved hazard
  nreq,             \* requests admitted
  geoOk,            \* geolocation calls that returned coordinates
  parses,           \* gpd.read_file(DATA_FILE) calls that parsed the file
  downloads,        \* requests.get(DATA_URL) calls
  fn                \* the function under evaluation (FnSpec)

vars == << variant, proc, file, startFile, dataset, mapFiles,
           current_map_path, chk, chkResp, mapResp, mapq, lastWriter, anySuccess,
           nreq, geoOk, parses, downloads, fn >>

Idle ==
  [pc |-> "idle", ip |-> Nothing, geo |-> "-", lon |-> 0, lat |-> 0,
   fileSeen |-> "-", hazard |-> None, map_path |-> None]

NoCheckResp ==
  [status |-> 0, hazard |-> None, map_available |-> FALSE, error |-> "",
   geo |-> "-", fileSeen |-> "-"]

NoMapResp ==
  [status |-> 0, body |-> "", writer |-> None, ownCheck |-> FALSE,
   beforeSuccess |-> FALSE]

FnIdle ==
  [op |-> "-", done |-> FALSE, hdr |-> Nothing, addr |-> Nothing,
   ip |-> Nothing, lon |-> 0, lat |-> 0, col |-> <<>>, hazard |-> None]

\* current_map_path = None at module level.
initial_map_path_stale == MapPng

initial_map_path == None

ServerInit ==
  /\ proc = "starting"
  /\ startFile = file
  /\ current_map_path = initial_map_path
  /\ chk = [c \in Clients |-> Idle]
  /\ chkResp = [c \in Clients |-> NoCheckResp]
  /\ mapResp = [c \in Clients |-> NoMapResp]
  /\ mapq = [c \in Clients |-> "idle"]
  /\ lastWriter = None
  /\ anySuccess = FALSE
  /\ nreq = 0
  /\ geoOk = 0
  /\ parses = 0
  /\ downloads = 0

Init ==
  /\ variant \in Variants
  /\ file \in FileStates
  /\ dataset \in SampleDatasets
  /\ mapFiles \in SUBSET {MapPng}
  /\ fn = FnIdle
  /\ ServerInit

\* ---------------------------------------------------------------- start-up
\* Module import: download_map_data(), inside try/except in the serverless
\* variant and bare in the standalone one.
startup_survives(var, raised) == ~raised \/ var = "serverless"

StartUp ==
  /\ proc = "starting"
  /\ IF needs_download(file)
     THEN \E o \in DownloadOutcomes :
            /\ downloads' = downloads + 1
            /\ file' = file_after_download(o)
            /\ proc' = IF startup_survives(variant, download_raises(o))
                       THEN "running" ELSE "crashed"
     ELSE /\ proc' = "running"
          /\ UNCHANGED << file, downloads >>
  /\ UNCHANGED << variant, startFile, dataset, mapFiles, current_map_path,
                   chk, chkResp, mapResp, mapq, lastWriter, anySuccess, nreq,
                   geoOk, parses, fn >>

\* ----------------------------------------------------- /check_flood_hazard
\* The request arrives and its ip_address is taken from the request.
Arrive(c) ==
  /\ proc = "running"
  /\ chk[c].pc = "idle"
  /\ nreq < MaxRequests
  /\ \E h \in SampleHeaders, a \in SampleAddrs :
       chk' = [chk EXCEPT ![c] =
                 [Idle EXCEPT !.pc = "geo", !.ip = client_ip(variant, h, a)]]
  /\ nreq' = nreq + 1
  /\ UNCHANGED << variant, proc, file, startFile, dataset, mapFiles,
                   current_map_path, chkResp, mapResp, mapq, lastWriter,
                   anySuccess, geoOk, parses, downloads, fn >>

Error500(c, o, f, msg) ==
  [status |-> 500, hazard |-> None, map_available |-> FALSE, error |-> msg,
   geo |-> o, fileSeen |-> f]

\* get_flood_hazard_from_ip up to Point(longitude, latitude).
Geolocate(c) ==
  /\ chk[c].pc = "geo"
  /\ \E o \in GeoOutcomes :
       \/ /\ geo_caught(o)              \* except Exception: return None, None
          /\ chk' = [chk EXCEPT ![c] =
                       [@ EXCEPT !.pc = "write", !.ip = Nothing, !.geo = o,
                                 !.hazard = None, !.map_path = None]]
          /\ UNCHANGED << chkResp, geoOk >>
       \/ /\ o = "missing_fields"       \* Point(None, None): TypeError
          /\ chk' = [chk EXCEPT ![c] = Idle]
          /\ chkResp' = [chkResp EXCEPT ![c] = Error500(c, o, "-", "TypeError")]
          /\ UNCHANGED geoOk
       \/ /\ o = "ok"
          /\ \E pt \in SamplePoints :
               chk' = [chk EXCEPT ![c] =
                         [@ EXCEPT !.pc = "resolve", !.ip = Nothing,
                                   !.geo = o, !.lon = pt[1], !.lat = pt[2]]]
          /\ geoOk' = geoOk + 1
          /\ UNCHANGED chkResp
  /\ UNCHANGED << variant, proc, file, startFile, dataset, mapFiles,
                   current_map_path, mapResp, mapq, lastWriter, anySuccess, nreq,
                   parses, downloads, fn >>

\* gdf = gpd.read_file(DATA_FILE): one parse of the file per call.
parses_after_cached(n) == IF n = 0 THEN 1 ELSE n

parses_after(n) == n + 1

read_error(f) == IF f = "absent" THEN "DataSourceError: no such file"
                 ELSE "DataSourceError: not recognized"

\* return hazard, current_map_path
returned_map_path_generated(path) == MapPng

returned_map_path(path) == path

\* get_flood_hazard_from_ip from gpd.read_file to its return.
Resolve(c) ==
  /\ chk[c].pc = "resolve"
  /\ IF file = "valid"
     THEN /\ parses' = parses_after(parses)
          /\ chk' = [chk EXCEPT ![c] =
                       [@ EXCEPT !.pc = "write", !.fileSeen = file,
                                 !.hazard = resolve_hazard(chk[c].lon, chk[c].lat,
                                                           dataset),
                                 !.map_path = returned_map_path(current_map_path)]]
          /\ UNCHANGED chkResp
     ELSE /\ chk' = [chk EXCEPT ![c] = Idle]
          /\ chkResp' = [chkResp EXCEPT ![c] =
                           Error500(c, chk[c].geo, file, read_error(file))]
          /\ UNCHANGED parses
  /\ UNCHANGED << variant, proc, file, startFile, dataset, mapFiles,
                   current_map_path, mapResp, mapq, lastWriter, anySuccess, nreq,
                   geoOk, downloads, fn >>

\* current_map_path = map_path; return jsonify({...})
Respond(c) ==
  /\ chk[c].pc = "write"
  /\ current_map_path' = chk[c].map_path
  /\ lastWriter' = c
  /\ chkResp' = [chkResp EXCEPT ![c] =
                   [status |-> 200, hazard |-> chk[c].hazard,
                    map_available |-> chk[c].map_path # None, error |-> "",
                    geo |-> chk[c].geo, fileSeen |-> chk[c].fileSeen]]
  /\ anySuccess' = (anySuccess \/ chk[c].geo = "ok")
  /\ chk' = [chk EXCEPT ![c] = Idle]
  /\ UNCHANGED << variant, proc, file, startFile, dataset, mapFiles, mapResp, mapq,
                   nreq, geoOk, parses, downloads, fn >>

\* ------------------------------------------------------------------- /map
\* serve_map reads the global three times: its truth value, the argument of
\* os.path.exists and the argument of send_file.  Other requests may assign
\* it in between.

\* "if current_map_path and ...": the truth value of the first read; None
\* and the empty string are falsy.
map_test(path) == path # None /\ path # ""

\* os.path.exists(current_map_path) on the second read; os.path.exists(None)
\* raises TypeError.
map_exists(path, onDisk) ==
  IF path = None THEN "raise" ELSE IF path \in onDisk THEN "yes" ELSE "no"

\* send_file(current_map_path, mimetype='image/png') on the third read: the
\* image, or an exception (no path, no such file) that the framework
\* answers with 500.
map_send(path, onDisk) == IF path # None /\ path \in onDisk THEN 200 ELSE 500

MapAnswer(c, st, body) ==
  [status |-> st, body |-> body, writer |-> lastWriter,
   ownCheck |-> chkResp[c].status = 200, beforeSuccess |-> ~anySuccess]

\* One step of a /map request of client c.
ServeMap(c) ==
  /\ proc = "running"
  /\ CASE mapq[c] = "idle" ->
            /\ nreq < MaxRequests
            /\ nreq' = nreq + 1
            /\ IF map_test(current_map_path)
               THEN /\ mapq' = [mapq EXCEPT ![c] = "exists"]
                    /\ UNCHANGED mapResp
               ELSE /\ mapResp' = [mapResp EXCEPT ![c] =
                                     MapAnswer(c, 404, "Map not found")]
                    /\ UNCHANGED mapq
       [] mapq[c] = "exists" ->
            /\ UNCHANGED nreq
            /\ LET e == map_exists(current_map_path, mapFiles) IN
                 IF e = "yes"
                 THEN /\ mapq' = [mapq EXCEPT ![c] = "send"]
                      /\ UNCHANGED mapResp
                 ELSE /\ mapq' = [mapq EXCEPT ![c] = "idle"]
                      /\ mapResp' = [mapResp EXCEPT ![c] =
                           IF e = "raise" THEN MapAnswer(c, 500, "TypeError")
                           ELSE MapAnswer(c, 404, "Map not found")]
       [] mapq[c] = "send" ->
            /\ UNCHANGED nreq
            /\ mapq' = [mapq EXCEPT ![c] = "idle"]
            /\ LET st == map_send(current_map_path, mapFiles) IN
                 mapResp' = [mapResp EXCEPT ![c] =
                   MapAnswer(c, st, IF st = 200 THEN current_map_path
                                    ELSE "Internal Server Error")]
  /\ UNCHANGED << variant, proc, file, startFile, dataset, mapFiles,
                   current_map_path, chk, chkResp, lastWriter, anySuccess,
                   geoOk, parses, downloads, fn >>

Next ==
  \/ StartUp
  \/ \E c \in Clients : Arrive(c)
  \/ \E c \in Clients : Geolocate(c)
  \/ \E c \in Clients : Resolve(c)
  \/ \E c \in Clients : Respond(c)
  \/ \E c \in Clients : ServeMap(c)

Spec == Init /\ [][Next]_vars

\* ------------------------------------------- the functions on their own
\* The request data and the datasets the two pure parts of a hazard check
\* are evaluated on: client_ip on every header up to MaxHdrLen characters,
\* resolve_hazard on every dataset up to MaxPolys polygons and every grid
\* point.
\* '1', '2', ',', ' ' and TAB.
Chars == {49, 50, Comma, 32, 9}
Headers == {Nothing} \cup { Some(str) : str \in SeqsUpTo(Chars, MaxHdrLen) }
Addrs == {Nothing, Some(<<57>>)}
Grid == 0..GridMax

FnInit ==
  /\ file = "valid"
  /\ mapFiles = {}
  /\ ServerInit
  /\ \/ /\ variant \in Variants
        /\ dataset \in SampleDatasets
        /\ fn \in { [FnIdle EXCEPT !.op = "client_ip", !.hdr = h, !.addr = a] :
                      h \in Headers, a \in Addrs }
     \/ /\ variant = "serverless"
        /\ dataset \in Datasets
        /\ fn \in { [FnIdle EXCEPT !.op = "resolve", !.lon = x, !.lat = y] :
                      x \in Grid, y \in Grid }

ApplyClientIp ==
  /\ fn.op = "client_ip" /\ ~fn.done
  /\ fn' = [fn EXCEPT !.done = TRUE,
                      !.ip = client_ip(variant, fn.hdr, fn.addr)]
  /\ UNCHANGED << variant, proc, file, startFile, dataset, mapFiles,
                   current_map_path, chk, chkResp, mapResp, mapq, lastWriter,
                   anySuccess, nreq, geoOk, parses, downloads >>

ApplyResolve ==
  /\ fn.op = "resolve" /\ ~fn.done
  /\ fn' = [fn EXCEPT
              !.done = TRUE,
              !.col = sjoin(align_crs(make_point(fn.lon, fn.lat), dataset.crs),
                            dataset.rows),
              !.hazard = resolve_hazard(fn.lon, fn.lat, dataset)]
  /\ UNCHANGED << variant, proc, file, startFile, dataset, mapFiles,
                   current_map_path, chk, chkResp, mapResp, mapq, lastWriter,
                   anySuccess, nreq, geoOk, parses, downloads >>

FnNext == ApplyClientIp \/ ApplyResolve

FnSpec == FnInit /\ [][FnNext]_vars

\* ================================================================= claims

\* ---- helpers of the claims' statements (not models of the code)
Served(c) == mapResp[c].status # 0
Answered(c) == chkResp[c].status # 0
NotFound(c) == mapResp[c].status = 404 /\ mapResp[c].body = "Map not found"
InResolve == { c \in Clients : chk[c].pc = "resolve" }

\* C1: a /map request served before any hazard check has succeeded is
\* answered 404 "Map not found", whatever failed or in-flight checks
\* precede or overlap it.
C1_MapBeforeSuccessNotFound ==
  \A c \in Clients : Served(c) /\ mapResp[c].beforeSuccess => NotFound(c)

C1_Witness ==
  \E c, d, e \in Clients :
    /\ Served(c) /\ mapResp[c].beforeSuccess /\ NotFound(c)
    /\ mapFiles = {MapPng}
    /\ ~anySuccess
    /\ Answered(d)
    /\ chk[e].pc # "idle"

\* C2 (as claimed): when the geolocation service fails at the network
\* level, answers a non-success status or omits latitude/longitude, the
\* geolocation step returns (None, None) and nothing is raised, so the
\* request is answered 200 with hazard None and map_available false.
C2_GeolocationNeverRaises ==
  \A c \in Clients :
    chkResp[c].geo \in {"network_fail", "bad_status", "missing_fields"}
      => /\ chkResp[c].status = 200
         /\ chkResp[c].hazard = None
         /\ ~chkResp[c].map_available

\* ---- the resolver's claims, stated on the geographic coordinates
\* The polygon's box, carried back from the dataset's CRS to WGS84.
Unprojected(box, crs) ==
  IF crs = WGS84 THEN box
  ELSE [xmin |-> box.xmin - ProjectedOffset.easting,
        xmax |-> box.xmax - ProjectedOffset.easting,
        ymin |-> box.ymin - ProjectedOffset.northing,
        ymax |-> box.ymax - ProjectedOffset.northing]

StrictlyInside(lon, lat, box) ==
  /\ lon > box.xmin /\ lon < box.xmax /\ lat > box.ymin /\ lat < box.ymax

Containing ==
  { i \in DOMAIN dataset.rows :
      StrictlyInside(fn.lon, fn.lat, Unprojected(dataset.rows[i].box, dataset.crs)) }

Resolved == fn.op = "resolve" /\ fn.done

\* C3: a point strictly inside exactly one polygon resolves to that
\* polygon's label (None when that label is missing), and a point inside no
\* polygon resolves to None.
C3_ResolverReturnsContainingLabel ==
  Resolved =>
    /\ Containing = {} => fn.hazard = None
    /\ \A i \in Containing :
         Containing = {i} =>
           fn.hazard = IF dataset.rows[i].label = NaN THEN None
                       ELSE dataset.rows[i].label

C3_Witness ==
  /\ Resolved
  /\ Len(dataset.rows) = 2
  /\ dataset.crs = Projected
  /\ fn.lon # fn.lat
  /\ Cardinality(Containing) = 1
  /\ fn.hazard = "HIGH"

\* C4 (as claimed): the dataset is parsed from the local file at most once
\* in a process lifetime.
C4_ParsedAtMostOnce == parses <= 1

\* C4 (amended): every hazard check whose geolocation returned coordinates
\* parses the file again when it is valid, so the parses are as many as the
\* geolocated checks that have passed gpd.read_file; none when the file is
\* not valid.
C4_ParsedOnEveryCheck ==
  proc = "running" =>
    parses = IF file = "valid" THEN geoOk - Cardinality(InResolve) ELSE 0

C4_Witness ==
  /\ parses = 2
  /\ \A c \in Clients : chkResp[c].status = 200 /\ chkResp[c].fileSeen = "valid"

\* C5 (as claimed): a hazard check that needs the dataset while the file is
\* absent fetches it before parsing, that is, attempts a download of its
\* own on top of start-up's.
C5_CheckDownloadsWhenAbsent ==
  \A c \in Clients : chkResp[c].fileSeen = "absent" => downloads >= 2

\* C5 (amended): the download is attempted at start-up only, exactly when
\* the file is absent then; a hazard check never downloads, and one that
\* finds the file absent is answered with a 500 error and leaves it absent.
C5_DownloadOnlyAtStartUp ==
  /\ downloads <= 1
  /\ downloads = 1 => startFile = "absent"
  /\ proc # "starting" /\ startFile = "absent" => downloads = 1
  /\ proc # "starting" /\ downloads = 0 => file = startFile
  /\ \A c \in Clients :
       chkResp[c].fileSeen = "absent"
         => chkResp[c].status = 500 /\ file = "absent"

C5_Witness ==
  \E c \in Clients :
    /\ chkResp[c].fileSeen = "absent"
    /\ chkResp[c].status = 500
    /\ downloads = 1

\* C6 (as claimed): whatever the outcomes of the download, the parse and
\* the geolocation call, start-up completes and every hazard check ends
\* with a JSON answer: {hazard, map_available}, or an error body when the
\* dataset is unavailable; a point matching no polygon gives None.
C6_NothingCrashes ==
  /\ proc # "crashed"
  /\ \A c \in Clients :
       /\ chkResp[c].status \in {0, 200, 500}
       /\ chkResp[c].fileSeen \in {"absent", "corrupt"} => chkResp[c].status = 500
       /\ chkResp[c].fileSeen = "valid" => chkResp[c].status = 200

\* ---- the IP extraction's claims
FirstEntry(str) ==
  LET n == CHOOSE n \in 0..Len(str) :
             /\ \A i \in 1..n : str[i] # Comma
             /\ n = Len(str) \/ str[n + 1] = Comma
  IN SubSeq(str, 1, n)

Blank(str) == \A i \in 1..Len(str) : str[i] \in Whitespace

\* t is e without its leading and trailing whitespace.
IsTrimOf(t, e) ==
  /\ t = <<>> \/ (t[1] \notin Whitespace /\ t[Len(t)] \notin Whitespace)
  /\ \E a \in 0..Len(e) :
       /\ a + Len(t) <= Len(e)
       /\ Blank(SubSeq(e, 1, a))
       /\ SubSeq(e, a + 1, a + Len(t)) = t
       /\ Blank(SubSeq(e, a + Len(t) + 1, Len(e)))

Extracted == fn.op = "client_ip" /\ fn.done

\* C7 (as claimed): in both variants the IP given to the geolocation step
\* is the trimmed first comma-separated entry of X-Forwarded-For when the
\* header is present, and the connection address when it is absent.
C7_ForwardedForPreferred ==
  Extracted =>
    IF fn.hdr.some
    THEN fn.ip.some /\ IsTrimOf(fn.ip.s, FirstEntry(fn.hdr.s))
    ELSE fn.ip = fn.addr

\* C7 (amended): that holds of the serverless variant; the standalone
\* variant passes the connection address whether or not the header is
\* present.
C7_ForwardedForServerlessOnly ==
  Extracted =>
    IF variant = "serverless" /\ fn.hdr.some
    THEN fn.ip.some /\ IsTrimOf(fn.ip.s, FirstEntry(fn.hdr.s))
    ELSE fn.ip = fn.addr

C7_Witness ==
  /\ Extracted
  /\ variant = "serverless"
  /\ fn.hdr = Some(<<9, 49, Comma>>)
  /\ fn.addr = Some(<<57>>)
  /\ fn.ip = Some(<<49>>)

\* ---- cross-talk
\* a's /map was served after a's own check had answered, from a
\* current_map_path last assigned by another client's check.
CrossTalk(a) ==
  /\ Served(a)
  /\ mapResp[a].ownCheck
  /\ mapResp[a].writer \notin {a, None}

\* C8 (as claimed): in the interleaving where client B's check assigns
\* current_map_path between A's check and A's /map, A's /map is answered
\* with the map path B's check wrote.
C8_CrossTalkDeliversPath ==
  \A a \in Clients :
    CrossTalk(a) => mapResp[a].status = 200 /\ mapResp[a].body # "Map not found"

\* C8 (amended): that interleaving is reachable and A's /map then reads the
\* value B's check assigned, but the value is None: the answer is 404 and
\* no map path of B's (or of anyone's) is delivered.
C8_CrossTalkDeliversNothing ==
  \A a \in Clients : CrossTalk(a) => NotFound(a) /\ current_map_path = None

C8_Witness ==
  \E a \in Clients :
    /\ CrossTalk(a)
    /\ NotFound(a)
    /\ mapFiles = {MapPng}
    /\ chkResp[a].hazard = "HIGH"

\* C9 (as claimed): when at least one row of the join has a non-missing
\* label the resolver returns a non-missing label, and it returns None only
\* when no row has one.
C9_NonMissingLabelWins ==
  Resolved =>
    /\ (\E i \in DOMAIN fn.col : fn.col[i] # NaN) => fn.hazard \notin {None, NaN}
    /\ fn.hazard = None => \A i \in DOMAIN fn.col : fn.col[i] = NaN

\* C10: current_map_path is None in every reachable state: no check answers
\* map_available = true and no /map request is answered with anything but
\* 404.
C10_MapPathAlwaysNone ==
  /\ current_map_path = None
  /\ \A c \in Clients :
       /\ chk[c].map_path = None
       /\ chkResp[c].status = 200 => ~chkResp[c].map_available
       /\ Served(c) => NotFound(c)

C10_Witness ==
  \E c \in Clients :
    /\ chkResp[c].status = 200
    /\ chkResp[c].hazard = "LOW"
    /\ mapResp[c].ownCheck
    /\ NotFound(c)
    /\ lastWriter = c
    /\ mapFiles = {MapPng}

====
